---- MODULE Spec2Model ----
\* A model of the manual clock of thejerf/abtime (manual.go): the registry of
\* triggers with its pending credit, the five trigger variants, the tasks they
\* spawn to deliver, and the handles' Stop/Reset/cancel operations.
\*
\* The registry lock (ManualTime's embedded sync.Mutex) is held by at most one
\* operation; mu is that operation's position.  An operation that is waiting
\* for the lock has not started yet.  Every fire (trigger.trigger) is a step of
\* its own, so a Stop, a Reset, a cancel, a delivery task or a reader can run
\* between two fires of one Trigger call.  A variant's own lock guards a short
\* section that takes no other lock; that section is one step.
EXTENDS Integers, Sequences, FiniteSets, TLC

\* ---------------------------------------------------------------- bounds
MaxObj == 2      \* trigger objects created in one run
MaxTrig == 2     \* ids processed by Trigger calls in one run
MaxUnreg == 1    \* ids dropped by Unregister / UnregisterAll in one run
MaxCalls == 2    \* Stop / Reset / cancel calls on the handles in one run
MaxAdvance == 1  \* Advance calls in one run
MaxClock == 4    \* Now, Advance and QueueNows calls in one run

Ids == {1, 2}
Obj == 1..MaxObj
Durations == {1, 2}
StartTimes == {10}

VARIABLES
  now,       \* ManualTime.now
  nows,      \* ManualTime.nows
  triggers,  \* ManualTime.triggers: id -> triggerInfo (present, count, triggers)
  mu,        \* the holder of the registry lock, its position and what it has fired
  objs,      \* the trigger objects: their fields
  pend,      \* per object: delivery tasks spawned that have not run yet
  sendq,     \* per object: values of the tasks blocked in the channel send
  recv,      \* per object: values the reader has received, in order
  ext,       \* the external cancellable parent context: TRUE once cancelled
  hist,      \* per id: the operations applied to it, in lock order
  reg,       \* per object: what its registration saw
  log,       \* per object: its fires, Stops, Resets and cancels, in order
  used,      \* how many Advance calls and handle calls were made so far
  clk        \* the calls of Now, Advance and QueueNows, in lock order

vars == <<now, nows, triggers, mu, objs, pend, sendq, recv, ext, hist, reg, log, used,
          clk>>

\* ------------------------------------------------------------ data
NoEntry == [present |-> FALSE, count |-> 0, triggers |-> <<>>]

Idle == [pc |-> "idle", op |-> "none", ids |-> <<>>, id |-> 0, idx |-> 0,
         keep |-> <<>>, obj |-> 0, fired |-> <<>>, args |-> <<>>]

Blank == [kind |-> "none", st |-> "unused", id |-> 0, d |-> 0, t |-> 0,
          stopped |-> FALSE, closed |-> FALSE, err |-> "nil",
          parent |-> "none", pobj |-> 0, obs |-> "none"]

NoReg == [c0 |-> 0, n0 |-> 0, c1 |-> 0, h0 |-> 0, t0 |-> 0, hr |-> 0, vf |-> 0]

Init ==
  /\ now \in StartTimes
  /\ nows = <<>>
  /\ triggers = [i \in Ids |-> NoEntry]
  /\ mu = Idle
  /\ objs = [o \in Obj |-> Blank]
  /\ pend = [o \in Obj |-> 0]
  /\ sendq = [o \in Obj |-> <<>>]
  /\ recv = [o \in Obj |-> <<>>]
  /\ ext = FALSE
  /\ hist = [i \in Ids |-> <<>>]
  /\ reg = [o \in Obj |-> NoReg]
  /\ log = [o \in Obj |-> <<>>]
  /\ used = [advance |-> 0, calls |-> 0]
  /\ clk = <<>>

\* ------------------------------------------------------------ helpers
Occurrences(s, x) == Cardinality({k \in 1..Len(s) : s[k] = x})

RECURSIVE SumOver(_, _)
SumOver(S, f) ==
  IF S = {} THEN 0
  ELSE LET x == CHOOSE y \in S : TRUE IN f[x] + SumOver(S \ {x}, f)

Triggered == SumOver(Ids, [i \in Ids |-> Occurrences(hist[i], "T")])

\* The next free object, allocated in order.
Fresh(o) == objs[o].st = "unused" /\ \A p \in Obj : p < o => objs[p].st # "unused"

LockFree == mu.pc = "idle"

\* ------------------------------------------------------------ the variants' trigger methods
\* As Discard, but no trigger asks to be deleted.
DiscardNever(o) == FALSE

\* As Discard, but every trigger asks to be deleted.
DiscardAlways(o) == TRUE

\* As Discard, but a callback timer is kept after its fire.
DiscardOthers(o) ==
  IF objs[o].kind = "tick" THEN objs[o].stopped ELSE objs[o].kind # "afterFunc"

\* trigger() returns true to be deleted, false to be kept.
Discard(o) ==
  IF objs[o].kind = "tick" THEN objs[o].stopped ELSE TRUE

\* Whether this fire delivers: spawns its task, or closes the done channel.
Delivers(o) ==
  CASE objs[o].kind \in {"after", "sleep"} -> TRUE
    [] objs[o].kind \in {"tick", "afterFunc", "timer"} -> ~objs[o].stopped
    [] objs[o].kind = "context" -> ~objs[o].closed
    [] OTHER -> FALSE

\* As Triggered_, but a timer that fires is not marked stopped.
TriggeredUnmarked(o) ==
  IF objs[o].kind = "tick" /\ ~objs[o].stopped
  THEN [objs[o] EXCEPT !.t = objs[o].t + objs[o].d]
  ELSE objs[o]

\* As Triggered_, but the fire of a deadline handle does not close it.
TriggeredOpen(o) ==
  CASE objs[o].kind = "tick" ->
         IF objs[o].stopped THEN objs[o]
         ELSE [objs[o] EXCEPT !.t = objs[o].t + objs[o].d]
    [] objs[o].kind \in {"afterFunc", "timer"} -> [objs[o] EXCEPT !.stopped = TRUE]
    [] OTHER -> objs[o]

\* The object after its trigger method ran.
Triggered_(o) ==
  CASE objs[o].kind = "tick" ->
         IF objs[o].stopped THEN objs[o]
         ELSE [objs[o] EXCEPT !.t = objs[o].t + objs[o].d]
    [] objs[o].kind \in {"afterFunc", "timer"} -> [objs[o] EXCEPT !.stopped = TRUE]
    [] objs[o].kind = "context" ->
         IF objs[o].closed THEN objs[o]
         ELSE [objs[o] EXCEPT !.closed = TRUE, !.err = "DeadlineExceeded"]
    [] OTHER -> objs[o]

\* As Spawned, but the trigger of a Sleep starts no task.
SpawnedAwake(o) == IF Delivers(o) /\ objs[o].kind \notin {"context", "sleep"} THEN 1 ELSE 0

\* The tasks a fire spawns: one per delivering fire, none for a context, whose
\* close happens inside the fire.
Spawned(o) == IF Delivers(o) /\ objs[o].kind # "context" THEN 1 ELSE 0

\* ------------------------------------------------------------ triggerAll
\* As EnterLoop, but the last unit of credit is never used.
EnterLoopLate(ti) == ti.count > 1 /\ Len(ti.triggers) > 0

\* As EnterLoop, but no pass is made over a list of stopped or closed waiters.
EnterLoopLive(ti) ==
  /\ ti.count > 0
  /\ \E k \in 1..Len(ti.triggers) :
       ~objs[ti.triggers[k]].stopped /\ ~objs[ti.triggers[k]].closed

\* As EnterLoop, but a waiter that is alone on its id is not fired.
EnterLoopCrowd(ti) == ti.count > 0 /\ Len(ti.triggers) > 1

\* The loop condition of triggerAll.
EnterLoop(ti) == ti.count > 0 /\ Len(ti.triggers) > 0

\* As PassDone, but the pass stops after its first trigger.
PassDoneAfterFirst == mu.idx > 1

\* The range loop over ti.triggers has fired every trigger of this pass.
PassDone == mu.idx > Len(triggers[mu.id].triggers)

\* What a spawned task sends, computed when the task runs: every field is read
\* then, without a lock.
Payload(o) ==
  CASE objs[o].kind = "after" -> now + objs[o].d
    [] objs[o].kind = "tick" -> objs[o].t
    [] objs[o].kind = "timer" -> objs[o].t + objs[o].d
    [] OTHER -> 0

\* What the history keeps of a fire of o: the time an After or a timer is due to
\* deliver, as it stands when trigger() is called.
FireSeen(o) ==
  [reg EXCEPT ![o].vf = IF Delivers(o) /\ objs[o].kind \in {"after", "timer"}
                        THEN Payload(o) ELSE @]

\* As Fire, but a trigger that delivers on a channel sends the value itself,
\* under the lock, and waits for a reader that is not there.
FireSending ==
  /\ mu.pc = "fire"
  /\ ~PassDone
  /\ LET o == triggers[mu.id].triggers[mu.idx] IN
       /\ Spawned(o) = 0 \/ objs[o].kind = "afterFunc"
       /\ objs' = [objs EXCEPT ![o] = Triggered_(o)]
       /\ pend' = [pend EXCEPT ![o] = @ + Spawned(o)]
       /\ log' = [log EXCEPT ![o] = Append(@, [e |-> "fire", r |-> Delivers(o)])]
       /\ reg' = FireSeen(o)
       /\ mu' = [mu EXCEPT !.idx = @ + 1,
                           !.keep = IF Discard(o) THEN @ ELSE Append(@, o),
                           !.fired = Append(@, [o |-> o, left |-> Len(mu.ids)])]
  /\ UNCHANGED <<now, nows, triggers, sendq, recv, ext, hist, used, clk>>

\* One iteration of the inner range loop: fire the idx-th trigger of the pass.
Fire ==
  /\ mu.pc = "fire"
  /\ ~PassDone
  /\ LET o == triggers[mu.id].triggers[mu.idx] IN
       /\ objs' = [objs EXCEPT ![o] = Triggered_(o)]
       /\ pend' = [pend EXCEPT ![o] = @ + Spawned(o)]
       /\ log' = [log EXCEPT ![o] = Append(@, [e |-> "fire", r |-> Delivers(o)])]
       /\ reg' = FireSeen(o)
       /\ mu' = [mu EXCEPT !.idx = @ + 1,
                           !.keep = IF Discard(o) THEN @ ELSE Append(@, o),
                           !.fired = Append(@, [o |-> o, left |-> Len(mu.ids)])]
  /\ UNCHANGED <<now, nows, triggers, sendq, recv, ext, hist, used, clk>>

\* The registration of mu.obj returns.
Returned(os, o) ==
  [os EXCEPT ![o].st = "live",
             ![o].obs = IF os[o].kind = "context" THEN "run" ELSE "none"]

\* As AfterPass, but the list is left as it was.
AfterPassAll(ti, keep) == [ti EXCEPT !.count = @ - 1]

\* ti.triggers = keep; ti.count--
AfterPass(ti, keep) == [ti EXCEPT !.triggers = keep, !.count = @ - 1]

\* The end of a pass: keep what asked to be kept, use up one credit, and test
\* the loop condition again; when it fails triggerAll returns to its caller.
EndPass ==
  /\ mu.pc = "fire"
  /\ PassDone
  /\ LET ti == AfterPass(triggers[mu.id], mu.keep) IN
       /\ triggers' = [triggers EXCEPT ![mu.id] = ti]
       /\ IF EnterLoop(ti)
          THEN /\ mu' = [mu EXCEPT !.idx = 1, !.keep = <<>>]
               /\ UNCHANGED <<objs, reg>>
          ELSE IF mu.op = "register"
          THEN /\ mu' = Idle
               /\ objs' = Returned(objs, mu.obj)
               /\ reg' = [reg EXCEPT ![mu.obj].c1 = ti.count]
          ELSE /\ mu' = [mu EXCEPT !.pc = "ids", !.idx = 0, !.keep = <<>>, !.id = 0]
               /\ UNCHANGED <<objs, reg>>
  /\ UNCHANGED <<now, nows, pend, sendq, recv, ext, hist, log, used, clk>>

\* ------------------------------------------------------------ register
\* The entry register makes for an id that has none.
NewEntryOnRegister(o) == [present |-> TRUE, count |-> 0, triggers |-> <<o>>]

\* As Added, but the new trigger is put in front of the list.
AddedFirst(ti, o) == [ti EXCEPT !.triggers = <<o>> \o @]

\* currentTriggerInfo.triggers = append(currentTriggerInfo.triggers, trig)
Added(ti, o) == [ti EXCEPT !.triggers = Append(@, o)]

\* register(id, trig) with the object o as built in os.
register(id, o, os) ==
  /\ LockFree
  /\ hist' = [hist EXCEPT ![id] = Append(@, "R")]
  /\ LET ti == triggers[id]
         seen == [reg[o] EXCEPT !.c0 = ti.count, !.n0 = Len(ti.triggers),
                                !.h0 = Len(hist[id]) + 1,
                                !.t0 = IF os[o].kind = "after" THEN now ELSE @]
     IN IF ~ti.present
        THEN /\ triggers' = [triggers EXCEPT ![id] = NewEntryOnRegister(o)]
             /\ mu' = Idle
             /\ objs' = Returned(os, o)
             /\ reg' = [reg EXCEPT ![o] = [seen EXCEPT !.c1 = 0]]
        ELSE LET tj == Added(ti, o) IN
             /\ triggers' = [triggers EXCEPT ![id] = tj]
             /\ IF EnterLoop(tj)
                THEN /\ mu' = [Idle EXCEPT !.pc = "fire", !.op = "register", !.id = id,
                                           !.idx = 1, !.obj = o, !.args = <<id>>]
                     /\ objs' = [os EXCEPT ![o].st = "registering"]
                     /\ reg' = [reg EXCEPT ![o] = seen]
                ELSE /\ mu' = Idle
                     /\ objs' = Returned(os, o)
                     /\ reg' = [reg EXCEPT ![o] = [seen EXCEPT !.c1 = tj.count]]

\* ------------------------------------------------------------ Trigger
TriggerArgs == {<<i>> : i \in Ids} \cup {<<i, j>> : i, j \in Ids}

\* As NewEntryOnTrigger, but the call leaves no credit.
NewEntryOnTriggerLost == [present |-> TRUE, count |-> 0, triggers |-> <<>>]

\* The entry Trigger makes for an id that has none.
NewEntryOnTrigger == [present |-> TRUE, count |-> 1, triggers |-> <<>>]

\* As Credited, but the credit is set, not counted.
CreditedOnce(ti) == [ti EXCEPT !.count = 1]

\* triggers.count++
Credited(ti) == [ti EXCEPT !.count = @ + 1]

\* Trigger(ids...) takes the lock.
Trigger(ids) ==
  /\ LockFree
  /\ Triggered + Len(ids) <= MaxTrig
  /\ mu' = [Idle EXCEPT !.pc = "ids", !.op = "Trigger", !.ids = ids, !.args = ids]
  /\ UNCHANGED <<now, nows, triggers, objs, pend, sendq, recv, ext, hist, reg, log, used, clk>>

\* One iteration of the loop over ids, up to the first fire.
TriggerId ==
  /\ mu.pc = "ids"
  /\ mu.ids # <<>>
  /\ LET id == Head(mu.ids)
         ti == triggers[id]
     IN /\ hist' = [hist EXCEPT ![id] = Append(@, "T")]
        /\ IF ~ti.present
           THEN /\ triggers' = [triggers EXCEPT ![id] = NewEntryOnTrigger]
                /\ mu' = [mu EXCEPT !.ids = Tail(@)]
           ELSE LET tj == Credited(ti) IN
                /\ triggers' = [triggers EXCEPT ![id] = tj]
                /\ IF EnterLoop(tj)
                   THEN mu' = [mu EXCEPT !.pc = "fire", !.ids = Tail(@), !.id = id,
                                         !.idx = 1, !.keep = <<>>]
                   ELSE mu' = [mu EXCEPT !.ids = Tail(@)]
  /\ UNCHANGED <<now, nows, objs, pend, sendq, recv, ext, reg, log, used, clk>>

\* Trigger returns and releases the lock.
TriggerReturn ==
  /\ mu.pc = "ids"
  /\ mu.ids = <<>>
  /\ mu' = Idle
  /\ UNCHANGED <<now, nows, triggers, objs, pend, sendq, recv, ext, hist, reg, log, used, clk>>

\* ------------------------------------------------------------ Unregister
UnregisterArgs == {<<i>> : i \in Ids} \cup {<<i, j>> : i, j \in Ids}

Range(s) == {s[k] : k \in 1..Len(s)}

\* The entries a call drops: hist records a "U" for an id whose entry existed.
Dropped(S) == {i \in S : triggers[i].present}

\* As Unregister, but the entries of all ids are deleted.
UnregisterWide(ids) ==
  /\ LockFree
  /\ \A i \in Dropped(Range(ids)) : Occurrences(hist[i], "U") < MaxUnreg
  /\ triggers' = [i \in Ids |-> IF ids # <<>> THEN NoEntry ELSE triggers[i]]
  /\ hist' = [i \in Ids |-> IF i \in Dropped(Range(ids)) THEN Append(hist[i], "U")
                            ELSE hist[i]]
  /\ UNCHANGED <<now, nows, mu, objs, pend, sendq, recv, ext, reg, log, used, clk>>

\* As Unregister, but only the credit of a named entry is dropped.
UnregisterCredit(ids) ==
  /\ LockFree
  /\ \A i \in Dropped(Range(ids)) : Occurrences(hist[i], "U") < MaxUnreg
  /\ triggers' = [i \in Ids |-> IF i \in Dropped(Range(ids))
                                THEN [triggers[i] EXCEPT !.count = 0]
                                ELSE triggers[i]]
  /\ hist' = [i \in Ids |-> IF i \in Dropped(Range(ids)) THEN Append(hist[i], "U")
                            ELSE hist[i]]
  /\ UNCHANGED <<now, nows, mu, objs, pend, sendq, recv, ext, reg, log, used, clk>>

\* Unregister(ids...): delete every named entry, under the lock.
Unregister(ids) ==
  /\ LockFree
  /\ \A i \in Dropped(Range(ids)) : Occurrences(hist[i], "U") < MaxUnreg
  /\ triggers' = [i \in Ids |-> IF i \in Range(ids) THEN NoEntry ELSE triggers[i]]
  /\ hist' = [i \in Ids |-> IF i \in Dropped(Range(ids)) THEN Append(hist[i], "U")
                            ELSE hist[i]]
  /\ UNCHANGED <<now, nows, mu, objs, pend, sendq, recv, ext, reg, log, used, clk>>

\* UnregisterAll(): a fresh, empty map.
UnregisterAll ==
  /\ LockFree
  /\ \A i \in Dropped(Ids) : Occurrences(hist[i], "U") < MaxUnreg
  /\ triggers' = [i \in Ids |-> NoEntry]
  /\ hist' = [i \in Ids |-> IF i \in Dropped(Ids) THEN Append(hist[i], "U") ELSE hist[i]]
  /\ UNCHANGED <<now, nows, mu, objs, pend, sendq, recv, ext, reg, log, used, clk>>

\* ------------------------------------------------------------ the facade operations
Make(kind, d, id) == [Blank EXCEPT !.kind = kind, !.st = "built", !.id = id, !.d = d]

\* After(d, id): make the trigger and register it.
After(d, id) ==
  /\ \E o \in Obj : Fresh(o) /\ register(id, o, [objs EXCEPT ![o] = Make("after", d, id)])
  /\ UNCHANGED <<now, nows, pend, sendq, recv, ext, log, used, clk>>

\* Sleep(d, id) up to its wait on the channel; the wait ends in Receive.
Sleep(d, id) ==
  /\ \E o \in Obj : Fresh(o) /\ register(id, o, [objs EXCEPT ![o] = Make("sleep", d, id)])
  /\ UNCHANGED <<now, nows, pend, sendq, recv, ext, log, used, clk>>

\* AfterFunc(d, f, id).
AfterFunc(d, id) ==
  /\ \E o \in Obj : Fresh(o) /\ register(id, o, [objs EXCEPT ![o] = Make("afterFunc", d, id)])
  /\ UNCHANGED <<now, nows, pend, sendq, recv, ext, log, used, clk>>

\* As NewTicker, but the ticker starts from the head of the queue of times, which
\* it takes off the queue.
NewTickerQueued(d, id) ==
  /\ \E o \in Obj :
       /\ Fresh(o)
       /\ objs' = [objs EXCEPT ![o] = [Make("tick", d, id) EXCEPT
                                        !.t = IF Len(nows) > 0 THEN Head(nows) ELSE now]]
       /\ reg' = [reg EXCEPT ![o].t0 = objs'[o].t]
  /\ nows' = IF Len(nows) > 0 THEN Tail(nows) ELSE nows
  /\ UNCHANGED <<now, triggers, mu, pend, sendq, recv, ext, hist, log, used, clk>>

\* NewTicker(d, id), first half: the tickTrigger is built from mt.now, which is
\* read without the lock.  Tick(d, id) is the same call.
NewTicker(d, id) ==
  /\ \E o \in Obj :
       /\ Fresh(o)
       /\ objs' = [objs EXCEPT ![o] = [Make("tick", d, id) EXCEPT !.t = now]]
       /\ reg' = [reg EXCEPT ![o].t0 = now]
  /\ UNCHANGED <<now, nows, triggers, mu, pend, sendq, recv, ext, hist, log, used, clk>>

\* NewTimer(d, id), first half: initialNow is read from mt.now without the lock.
NewTimer(d, id) ==
  /\ \E o \in Obj :
       /\ Fresh(o)
       /\ objs' = [objs EXCEPT ![o] = [Make("timer", d, id) EXCEPT !.t = now]]
       /\ reg' = [reg EXCEPT ![o].t0 = now]
  /\ UNCHANGED <<now, nows, triggers, mu, pend, sendq, recv, ext, hist, log, used, clk>>

\* NewTicker / NewTimer, second half: mt.register(id, tt).
RegisterBuilt(o) ==
  /\ objs[o].st = "built"
  /\ register(objs[o].id, o, objs)
  /\ UNCHANGED <<now, nows, pend, sendq, recv, ext, log, used, clk>>

\* The parents a deadline handle is made from: context.Background(), a
\* context.WithCancel() context, or a handle already returned.
Background == [parent |-> "bg", pobj |-> 0]
External == [parent |-> "ext", pobj |-> 0]
Child(p) == [parent |-> "obj", pobj |-> p]

Deadlines == {a + d : a \in StartTimes, d \in Durations}

\* WithDeadline(parent, deadline, id) with a parent that is not nil.
WithDeadline(par, deadline, id) ==
  /\ par.parent = "obj" => objs[par.pobj].kind = "context" /\ objs[par.pobj].st = "live"
  /\ \E o \in Obj :
       /\ Fresh(o)
       /\ register(id, o, [objs EXCEPT ![o] =
                             [Make("context", 0, id) EXCEPT !.t = deadline,
                                !.parent = par.parent, !.pobj = par.pobj]])
  /\ UNCHANGED <<now, nows, pend, sendq, recv, ext, log, used, clk>>

\* ------------------------------------------------------------ the handles
\* A handle is in its caller's hands once its constructor has returned.
Held(o, kind) == objs[o].kind = kind /\ objs[o].st = "live" /\ used.calls < MaxCalls

\* What the history keeps of a Reset of o: how many Triggers its id had seen.
ResetSeen(o) == [reg EXCEPT ![o].hr = Occurrences(hist[objs[o].id], "T")]

\* As TickStop, but Stop also ends the tasks that have not sent their tick yet.
TickStopRevoking(o) ==
  /\ Held(o, "tick")
  /\ objs' = [objs EXCEPT ![o].stopped = TRUE]
  /\ pend' = [pend EXCEPT ![o] = 0]
  /\ sendq' = [sendq EXCEPT ![o] = <<>>]
  /\ log' = [log EXCEPT ![o] = Append(@, [e |-> "Stop", r |-> FALSE])]
  /\ used' = [used EXCEPT !.calls = @ + 1]
  /\ UNCHANGED <<now, nows, triggers, mu, recv, ext, hist, reg, clk>>

\* tickTrigger.Stop(); it returns nothing.
TickStop(o) ==
  /\ Held(o, "tick")
  /\ objs' = [objs EXCEPT ![o].stopped = TRUE]
  /\ log' = [log EXCEPT ![o] = Append(@, [e |-> "Stop", r |-> FALSE])]
  /\ used' = [used EXCEPT !.calls = @ + 1]
  /\ UNCHANGED <<now, nows, triggers, mu, pend, sendq, recv, ext, hist, reg, clk>>

\* tickTrigger.Reset(d) has an empty body.
TickReset(o, d) ==
  /\ Held(o, "tick")
  /\ log' = [log EXCEPT ![o] = Append(@, [e |-> "Reset", r |-> FALSE])]
  /\ reg' = ResetSeen(o)
  /\ used' = [used EXCEPT !.calls = @ + 1]
  /\ UNCHANGED <<now, nows, triggers, mu, objs, pend, sendq, recv, ext, hist, clk>>

\* As TimerStopResult, but Stop always reports success.
TimerStopAlways(o) == TRUE

\* What timerTrigger.Stop() returns.
TimerStopResult(o) == ~objs[o].stopped

TimerStop(o) ==
  /\ Held(o, "timer")
  /\ objs' = [objs EXCEPT ![o].stopped = TRUE]
  /\ log' = [log EXCEPT ![o] = Append(@, [e |-> "Stop", r |-> TimerStopResult(o)])]
  /\ used' = [used EXCEPT !.calls = @ + 1]
  /\ UNCHANGED <<now, nows, triggers, mu, pend, sendq, recv, ext, hist, reg, clk>>

\* As TimerResetResult, with the sense of the result reversed.
TimerResetReversed(o) == objs[o].stopped

\* What timerTrigger.Reset(d) returns.
TimerResetResult(o) == ~objs[o].stopped

TimerReset(o, d) ==
  /\ Held(o, "timer")
  /\ objs' = [objs EXCEPT ![o].d = d, ![o].stopped = FALSE]
  /\ log' = [log EXCEPT ![o] = Append(@, [e |-> "Reset", r |-> TimerResetResult(o)])]
  /\ reg' = ResetSeen(o)
  /\ used' = [used EXCEPT !.calls = @ + 1]
  /\ UNCHANGED <<now, nows, triggers, mu, pend, sendq, recv, ext, hist, clk>>

\* What afterFuncTrigger.Stop() returns.
AfterFuncStopResult(o) == ~objs[o].stopped

AfterFuncStop(o) ==
  /\ Held(o, "afterFunc")
  /\ objs' = [objs EXCEPT ![o].stopped = TRUE]
  /\ log' = [log EXCEPT ![o] = Append(@, [e |-> "Stop", r |-> AfterFuncStopResult(o)])]
  /\ used' = [used EXCEPT !.calls = @ + 1]
  /\ UNCHANGED <<now, nows, triggers, mu, pend, sendq, recv, ext, hist, reg, clk>>

\* What afterFuncTrigger.Reset(d) returns: ret := af.stopped.
AfterFuncResetResult(o) == objs[o].stopped

AfterFuncReset(o, d) ==
  /\ Held(o, "afterFunc")
  /\ objs' = [objs EXCEPT ![o].stopped = FALSE]
  /\ log' = [log EXCEPT ![o] = Append(@, [e |-> "Reset", r |-> AfterFuncResetResult(o)])]
  /\ reg' = ResetSeen(o)
  /\ used' = [used EXCEPT !.calls = @ + 1]
  /\ UNCHANGED <<now, nows, triggers, mu, pend, sendq, recv, ext, hist, clk>>

\* As cancel, but the last reason is the one kept.
cancelLast(c, err) == [c EXCEPT !.closed = TRUE, !.err = err]

\* contextTrigger.cancel(err) on the object record c.
cancel(c, err) ==
  IF c.closed THEN c ELSE [c EXCEPT !.closed = TRUE, !.err = err]

\* The handles made from the parent par that their callers hold.
ChildrenOf(par) ==
  {c \in Obj : /\ objs[c].kind = "context" /\ objs[c].st = "live"
               /\ objs[c].parent = par.parent /\ objs[c].pobj = par.pobj}

\* What the history keeps of the cancellation of par: every child's log gets an
\* entry, which tells whether the registry lock was free, that is whether no
\* Trigger call was under way.
ParentSeen(lg, par) ==
  [c \in Obj |-> IF c \in ChildrenOf(par)
                 THEN Append(lg[c], [e |-> "parent", r |-> LockFree])
                 ELSE lg[c]]

\* The CancelFunc WithDeadline returned.
Cancel(o) ==
  /\ Held(o, "context")
  /\ objs' = [objs EXCEPT ![o] = cancel(@, "Canceled")]
  /\ LET lg == [log EXCEPT ![o] = Append(@, [e |-> "cancel", r |-> ~objs[o].closed])]
     IN log' = IF objs[o].closed THEN lg ELSE ParentSeen(lg, Child(o))
  /\ used' = [used EXCEPT !.calls = @ + 1]
  /\ UNCHANGED <<now, nows, triggers, mu, pend, sendq, recv, ext, hist, reg, clk>>

\* The cancel function of the external parent.
ParentCancel ==
  /\ ~ext
  /\ ext' = TRUE
  /\ log' = ParentSeen(log, External)
  /\ UNCHANGED <<now, nows, triggers, mu, objs, pend, sendq, recv, hist, reg, used, clk>>

ParentDone(o) ==
  CASE objs[o].parent = "ext" -> ext
    [] objs[o].parent = "obj" -> objs[objs[o].pobj].closed
    [] OTHER -> FALSE

ParentErr(o) ==
  IF objs[o].parent = "obj" THEN objs[objs[o].pobj].err ELSE "Canceled"

\* The observer task of a handle: select on parent.Done() and ct.Done().
Observe(o) ==
  /\ objs[o].obs = "run"
  /\ \/ /\ ParentDone(o)
        /\ objs' = [objs EXCEPT ![o] = [cancel(@, ParentErr(o)) EXCEPT !.obs = "done"]]
     \/ /\ objs[o].closed
        /\ objs' = [objs EXCEPT ![o].obs = "done"]
  /\ UNCHANGED <<now, nows, triggers, mu, pend, sendq, recv, ext, hist, reg, log, used, clk>>

\* ------------------------------------------------------------ the delivery tasks
\* A spawned task starts: it evaluates its payload and blocks in the send on the
\* unbuffered channel (an AfterFunc task calls f instead).
Run(o) ==
  /\ pend[o] > 0
  /\ pend' = [pend EXCEPT ![o] = @ - 1]
  /\ IF objs[o].kind = "afterFunc"
     THEN /\ recv' = [recv EXCEPT ![o] = Append(@, 0)]
          /\ UNCHANGED sendq
     ELSE /\ sendq' = [sendq EXCEPT ![o] = Append(@, Payload(o))]
          /\ UNCHANGED recv
  /\ UNCHANGED <<now, nows, triggers, mu, objs, ext, hist, reg, log, used, clk>>

\* The reader of the channel takes the value of the longest-blocked sender.
Receive(o) ==
  /\ objs[o].st = "live"
  /\ sendq[o] # <<>>
  /\ recv' = [recv EXCEPT ![o] = Append(@, Head(sendq[o]))]
  /\ sendq' = [sendq EXCEPT ![o] = Tail(@)]
  /\ UNCHANGED <<now, nows, triggers, mu, objs, pend, ext, hist, reg, log, used, clk>>

\* ------------------------------------------------------------ the clock
\* The times a test queues.
Times == {20, 30}
QueueArgs == {<<a>> : a \in Times} \cup {<<a, b>> : a, b \in Times}

\* What the history keeps of a clock call: the call, its argument or result,
\* and the resident now and the queue it found.
ClkEntry(op, v, vs) == [op |-> op, v |-> v, vs |-> vs, now0 |-> now, nows0 |-> nows]

\* As Now, but the time taken from the queue does not become the resident now.
NowNoStick ==
  /\ LockFree
  /\ Len(clk) < MaxClock
  /\ IF Len(nows) > 0
     THEN /\ nows' = Tail(nows)
          /\ clk' = Append(clk, ClkEntry("Now", Head(nows), <<>>))
     ELSE /\ UNCHANGED nows
          /\ clk' = Append(clk, ClkEntry("Now", now, <<>>))
  /\ UNCHANGED <<now, triggers, mu, objs, pend, sendq, recv, ext, hist, reg, log, used>>

\* Now(): the head of the queue, when there is one, becomes the resident now.
Now ==
  /\ LockFree
  /\ Len(clk) < MaxClock
  /\ IF Len(nows) > 0
     THEN /\ now' = Head(nows)
          /\ nows' = Tail(nows)
     ELSE UNCHANGED <<now, nows>>
  /\ clk' = Append(clk, ClkEntry("Now", now', <<>>))
  /\ UNCHANGED <<triggers, mu, objs, pend, sendq, recv, ext, hist, reg, log, used>>

\* As Advance, but a timer whose time has come is fired.
AdvanceFiring(d) ==
  /\ LockFree
  /\ used.advance < MaxAdvance
  /\ Len(clk) < MaxClock
  /\ now' = now + d
  /\ used' = [used EXCEPT !.advance = @ + 1]
  /\ clk' = Append(clk, ClkEntry("Advance", d, <<>>))
  /\ LET due == {o \in Obj : /\ objs[o].kind \in {"timer", "after"} /\ objs[o].st = "live"
                              /\ ~objs[o].stopped /\ log[o] = <<>>
                              /\ reg[o].t0 + objs[o].d <= now + d}
     IN /\ objs' = [o \in Obj |-> IF o \in due THEN [objs[o] EXCEPT !.stopped = TRUE]
                                   ELSE objs[o]]
        /\ pend' = [o \in Obj |-> IF o \in due THEN pend[o] + 1 ELSE pend[o]]
        /\ log' = [o \in Obj |-> IF o \in due
                                  THEN Append(log[o], [e |-> "fire", r |-> TRUE])
                                  ELSE log[o]]
  /\ UNCHANGED <<nows, triggers, mu, sendq, recv, ext, hist, reg>>

\* As Advance, but the time is also added to the queued times.
AdvanceQueue(d) ==
  /\ LockFree
  /\ used.advance < MaxAdvance
  /\ Len(clk) < MaxClock
  /\ now' = now + d
  /\ nows' = [k \in 1..Len(nows) |-> nows[k] + d]
  /\ used' = [used EXCEPT !.advance = @ + 1]
  /\ clk' = Append(clk, ClkEntry("Advance", d, <<>>))
  /\ UNCHANGED <<triggers, mu, objs, pend, sendq, recv, ext, hist, reg, log>>

\* Advance(d).
Advance(d) ==
  /\ LockFree
  /\ used.advance < MaxAdvance
  /\ Len(clk) < MaxClock
  /\ now' = now + d
  /\ used' = [used EXCEPT !.advance = @ + 1]
  /\ clk' = Append(clk, ClkEntry("Advance", d, <<>>))
  /\ UNCHANGED <<nows, triggers, mu, objs, pend, sendq, recv, ext, hist, reg, log>>

\* Advance(d) step by step, first step: mt.Lock().
AdvanceLock(d) ==
  /\ LockFree
  /\ used.advance < MaxAdvance
  /\ Len(clk) < MaxClock
  /\ mu' = [Idle EXCEPT !.pc = "write", !.op = "Advance", !.args = <<d>>]
  /\ UNCHANGED <<now, nows, triggers, objs, pend, sendq, recv, ext, hist, reg, log, used, clk>>

\* Advance(d) step by step, second step: mt.now = mt.now.Add(d), and the
\* deferred mt.Unlock().
AdvanceWrite ==
  /\ mu.pc = "write"
  /\ now' = now + mu.args[1]
  /\ mu' = Idle
  /\ used' = [used EXCEPT !.advance = @ + 1]
  /\ clk' = Append(clk, ClkEntry("Advance", mu.args[1], <<>>))
  /\ UNCHANGED <<nows, triggers, objs, pend, sendq, recv, ext, hist, reg, log>>

\* QueueNows(times...).
QueueNows(times) ==
  /\ LockFree
  /\ Len(clk) < MaxClock
  /\ nows' = nows \o times
  /\ clk' = Append(clk, ClkEntry("QueueNows", 0, times))
  /\ UNCHANGED <<now, triggers, mu, objs, pend, sendq, recv, ext, hist, reg, log, used>>

\* ------------------------------------------------------------ WithTimeout
\* contextTrigger.Deadline()
Deadline(o) == <<objs[o].t, TRUE>>

\* The handle WithDeadline builds for WithTimeout from the time Now() returned.
TimeoutHandle(par, at, timeout, id) ==
  [Make("context", timeout, id) EXCEPT !.t = at + timeout,
                                       !.parent = par.parent, !.pobj = par.pobj]

\* As WithTimeout, but the deadline is counted from the resident now the call
\* found, not from the time Now() returned.
WithTimeoutResident(par, timeout, id) ==
  /\ LockFree
  /\ Len(clk) < MaxClock
  /\ par.parent = "obj" => objs[par.pobj].kind = "context" /\ objs[par.pobj].st = "live"
  /\ IF Len(nows) > 0
     THEN /\ now' = Head(nows)
          /\ nows' = Tail(nows)
     ELSE UNCHANGED <<now, nows>>
  /\ clk' = Append(clk, ClkEntry("Now", now', <<>>))
  /\ \E o \in Obj :
       /\ Fresh(o)
       /\ objs' = [objs EXCEPT ![o] = TimeoutHandle(par, now, timeout, id)]
       /\ reg' = [reg EXCEPT ![o].t0 = now']
  /\ UNCHANGED <<triggers, mu, pend, sendq, recv, ext, hist, log, used>>

\* WithTimeout(parent, timeout, id) with a parent that is not nil, first half:
\* the call of mt.Now(), whose result plus timeout is the deadline of the handle
\* WithDeadline builds.  The second half, mt.register(id, ct), is RegisterBuilt.
WithTimeout(par, timeout, id) ==
  /\ LockFree
  /\ Len(clk) < MaxClock
  /\ par.parent = "obj" => objs[par.pobj].kind = "context" /\ objs[par.pobj].st = "live"
  /\ IF Len(nows) > 0
     THEN /\ now' = Head(nows)
          /\ nows' = Tail(nows)
     ELSE UNCHANGED <<now, nows>>
  /\ clk' = Append(clk, ClkEntry("Now", now', <<>>))
  /\ \E o \in Obj :
       /\ Fresh(o)
       /\ objs' = [objs EXCEPT ![o] = TimeoutHandle(par, now', timeout, id)]
       /\ reg' = [reg EXCEPT ![o].t0 = now']
  /\ UNCHANGED <<triggers, mu, pend, sendq, recv, ext, hist, log, used>>

\* WithDeadline(nil, deadline, id): the panic comes before anything else; the
\* history keeps the call and the clock it found.
WithDeadlineNil(deadline, id) ==
  /\ Len(clk) < MaxClock
  /\ clk' = Append(clk, ClkEntry("WithDeadline", deadline, <<>>))
  /\ UNCHANGED <<now, nows, triggers, mu, objs, pend, sendq, recv, ext, hist, reg, log, used>>

\* WithTimeout(nil, timeout, id): the argument mt.Now().Add(timeout) is
\* evaluated, which calls Now(), and then WithDeadline panics.
WithTimeoutNil(timeout, id) ==
  /\ LockFree
  /\ Len(clk) < MaxClock
  /\ IF Len(nows) > 0
     THEN /\ now' = Head(nows)
          /\ nows' = Tail(nows)
     ELSE UNCHANGED <<now, nows>>
  /\ clk' = Append(clk, ClkEntry("WithTimeout", now' + timeout, <<>>))
  /\ UNCHANGED <<triggers, mu, objs, pend, sendq, recv, ext, hist, reg, log, used>>

\* ------------------------------------------------------------ what a run has shown
\* How often trigger() was called on o, and how often it delivered.
Fires(o) == Cardinality({k \in 1..Len(log[o]) : log[o][k].e = "fire"})
Deliveries(o) == Cardinality({k \in 1..Len(log[o]) : log[o][k].e = "fire" /\ log[o][k].r})

OneShot(o) == objs[o].kind \in {"after", "sleep", "timer", "afterFunc", "context"}
Registered(o) == objs[o].st \in {"registering", "live"}

\* The operations on id i since its entry was last dropped.
LastU(i) ==
  LET S == {k \in 1..Len(hist[i]) : hist[i][k] = "U"}
  IN IF S = {} THEN 0 ELSE CHOOSE k \in S : \A j \in S : j <= k
Seg(i) == SubSeq(hist[i], LastU(i) + 1, Len(hist[i]))

\* The object whose registration is the k-th operation of Seg(i).
ObjAt(i, k) ==
  CHOOSE o \in Obj : Registered(o) /\ objs[o].id = i /\ reg[o].h0 = LastU(i) + k

Rep(x, n) == [k \in 1..n |-> x]

\* ------------------------------------------------------------ the claims

\* C1. Pending credit: a one-shot waiter (After, Sleep, NewTimer, AfterFunc,
\* WithDeadline) registered on an id that has credit and no waiter has been
\* fired, and has delivered, exactly once when its registration returns, and
\* never again; when the credit was one Trigger's, it is 0 at the return.
PendingCredit ==
  \A o \in Obj :
    (objs[o].st = "live" /\ OneShot(o) /\ reg[o].n0 = 0 /\ reg[o].c0 >= 1)
      => /\ Fires(o) = 1
         /\ Deliveries(o) = 1
         /\ reg[o].c1 = reg[o].c0 - 1

\* A deadline handle was registered after one Trigger and fired in its
\* registration, which closed it and left no credit.
PendingCreditWitness ==
  \E o \in Obj :
    /\ objs[o].st = "live" /\ objs[o].kind = "context"
    /\ reg[o].n0 = 0 /\ reg[o].c0 = 1 /\ reg[o].c1 = 0
    /\ Fires(o) = 1 /\ objs[o].closed

\* C2. Order independence: one After or Sleep and one Trigger on a fresh id end,
\* in either lock order, with the waiter fired exactly once, no credit left and
\* no waiter left; an After or Sleep waiter is never fired twice.
OrderIndependence ==
  /\ \A o \in Obj : objs[o].kind \in {"after", "sleep"} => Fires(o) <= 1
  /\ LockFree =>
       \A i \in Ids :
         LET seg == Seg(i) IN
         seg \in {<<"R", "T">>, <<"T", "R">>}
           => LET k == IF seg[1] = "R" THEN 1 ELSE 2
                  o == ObjAt(i, k)
              IN objs[o].kind \in {"after", "sleep"}
                   => /\ Fires(o) = 1
                      /\ Deliveries(o) = 1
                      /\ pend[o] = 1
                      /\ triggers[i].count = 0
                      /\ triggers[i].triggers = <<>>

\* Both orders in one run: registration then Trigger, the id dropped, then
\* Trigger then registration.
OrderIndependenceWitness ==
  /\ LockFree
  /\ hist[1] = <<"R", "T", "U", "T", "R">>
  /\ \A o \in {1, 2} : objs[o].kind \in {"after", "sleep"} /\ Fires(o) = 1
  /\ reg[1].c0 = 0 /\ reg[2].c0 = 1

NoTriggerLost ==
  LockFree =>
    \A i \in Ids :
      LET seg == Seg(i)
          \* the id had one waiter that has fired: seg starts with "R", "T"
          p == IF seg # <<>> /\ seg[1] = "R" THEN 2 ELSE 0
          rest == SubSeq(seg, p + 1, Len(seg))
          n == Occurrences(rest, "T")
          m == Occurrences(rest, "R")
      IN (/\ n >= 1
          /\ p = 2 => Len(seg) >= 2 /\ seg[2] = "T"
          /\ rest = Rep("T", n) \o Rep("R", m)
          /\ \A k \in 1..m : OneShot(ObjAt(i, p + n + k))
          /\ p = 2 => OneShot(ObjAt(i, 1)))
           => /\ triggers[i].count = IF n > m THEN n - m ELSE 0
              /\ \A k \in 1..m :
                   LET o == ObjAt(i, p + n + k)
                   IN /\ Fires(o) = IF k <= n THEN 1 ELSE 0
                      /\ k <= n => objs[o].st = "live" /\ reg[o].c1 = n - k
              /\ triggers[i].triggers = [k \in 1..(IF m > n THEN m - n ELSE 0) |->
                                           ObjAt(i, p + 2 * n + k)]

\* One credit, two registrations: the first fired in its registration, the
\* second waits.
NoTriggerLostWitness ==
  /\ LockFree
  /\ hist[1] = <<"T", "R", "R">>
  /\ OneShot(1) /\ OneShot(2)
  /\ Fires(1) = 1 /\ Fires(2) = 0
  /\ triggers[1].count = 0 /\ triggers[1].triggers = <<2>>

\* Whether the handle of o is armed after the first k entries of its log, as
\* its history says: a new handle is armed, Stop disarms, Reset arms a timer or
\* a callback timer, and a fire disarms a timer or a callback timer.
RECURSIVE ArmedAfter(_, _)
ArmedAfter(o, k) ==
  IF k = 0 THEN TRUE
  ELSE LET e == log[o][k].e IN
       CASE e = "Stop" -> FALSE
         [] e = "Reset" -> IF objs[o].kind = "tick" THEN ArmedAfter(o, k - 1) ELSE TRUE
         [] e = "fire" -> IF objs[o].kind = "tick" THEN ArmedAfter(o, k - 1) ELSE FALSE
         [] OTHER -> ArmedAfter(o, k - 1)

Entries(o, e) == {k \in 1..Len(log[o]) : log[o][k].e = e}

\* C6. Ticker monotonic delivery: the first value received from a ticker made at
\* resident now T with period P is T+P and the second is T+2P.
TickerMonotonic ==
  \A o \in Obj :
    objs[o].kind = "tick" =>
      /\ Len(recv[o]) >= 1 => recv[o][1] = reg[o].t0 + objs[o].d
      /\ Len(recv[o]) >= 2 => recv[o][2] = reg[o].t0 + 2 * objs[o].d

\* C7. A ticker that was never stopped, on an id not unregistered since, is
\* still registered whenever the lock is free; every fire of it spawned one
\* delivery; it was fired once per unit of credit: the credit it found plus the
\* Triggers since; and when it is the first waiter of its id, once per Trigger
\* on the id, those before its registration included.
TickerPerCredit ==
  \A o \in Obj :
    (/\ LockFree
     /\ objs[o].kind = "tick" /\ objs[o].st = "live"
     /\ Entries(o, "Stop") = {}
     /\ LastU(objs[o].id) < reg[o].h0)
      => LET i == objs[o].id
             after == SubSeq(hist[i], reg[o].h0 + 1, Len(hist[i]))
             before == SubSeq(hist[i], LastU(i) + 1, reg[o].h0 - 1)
         IN /\ \E k \in 1..Len(triggers[i].triggers) : triggers[i].triggers[k] = o
            /\ Deliveries(o) = Fires(o)
            /\ pend[o] = Fires(o)
            /\ Fires(o) = reg[o].c0 + Occurrences(after, "T")
            /\ Occurrences(before, "R") = 0 => Fires(o) = Occurrences(Seg(i), "T")

\* Two Triggers before the ticker: it ticked twice in its registration.
TickerPerCreditWitness ==
  /\ LockFree
  /\ hist[1] = <<"T", "T", "R">>
  /\ objs[1].kind = "tick" /\ objs[1].st = "live"
  /\ Fires(1) = 2 /\ pend[1] = 2
  /\ triggers[1].triggers = <<1>>

\* C8. Idempotent stop: a Stop of a timer or callback timer that is not armed
\* returns false and leaves it not armed; a fire of a timer, ticker or callback
\* timer that is not armed delivers nothing and spawns nothing; the stopped
\* flag is always what the history of the handle says.
IdempotentStop ==
  \A o \in Obj :
    objs[o].kind \in {"timer", "afterFunc", "tick"} =>
      /\ \A k \in Entries(o, "Stop") :
           (objs[o].kind # "tick" /\ ~ArmedAfter(o, k - 1)) => ~log[o][k].r
      /\ \A k \in Entries(o, "fire") : ~ArmedAfter(o, k - 1) => ~log[o][k].r
      /\ objs[o].stopped = ~ArmedAfter(o, Len(log[o]))
      /\ pend[o] = Deliveries(o)

\* A timer stopped twice and then triggered: true, false, and no delivery.
IdempotentStopWitness ==
  \E o \in Obj :
    /\ objs[o].kind = "timer"
    /\ log[o] = <<[e |-> "Stop", r |-> TRUE], [e |-> "Stop", r |-> FALSE],
                  [e |-> "fire", r |-> FALSE]>>
    /\ pend[o] = 0

\* C9. Stop versus fire: for a timer or callback timer that was never Reset, with
\* one Stop and one fire, either Stop came first, returned true and the fire
\* delivered nothing, or the fire came first and delivered and Stop returned
\* false.
StopVersusFire ==
  \A o \in Obj :
    (/\ objs[o].kind \in {"timer", "afterFunc"}
     /\ Entries(o, "Reset") = {}
     /\ Cardinality(Entries(o, "Stop")) = 1
     /\ Cardinality(Entries(o, "fire")) = 1)
      => /\ log[o] \in
              {<<[e |-> "Stop", r |-> TRUE], [e |-> "fire", r |-> FALSE]>>,
               <<[e |-> "fire", r |-> TRUE], [e |-> "Stop", r |-> FALSE]>>}
         /\ pend[o] = IF log[o][1].e = "fire" THEN 1 ELSE 0

\* Both outcomes in one run: a timer whose Stop won and a callback timer whose
\* fire won.
StopVersusFireWitness ==
  \E o, p \in Obj :
    /\ objs[o].kind = "timer" /\ objs[p].kind = "afterFunc"
    /\ log[o] = <<[e |-> "Stop", r |-> TRUE], [e |-> "fire", r |-> FALSE]>>
    /\ log[p] = <<[e |-> "fire", r |-> TRUE], [e |-> "Stop", r |-> FALSE]>>

\* C10. Reset of a timer returns true exactly when the timer was armed just
\* before the call: not fired and not stopped since it was made or last Reset.
TimerResetReports ==
  \A o \in Obj :
    objs[o].kind = "timer" =>
      \A k \in Entries(o, "Reset") : log[o][k].r = ArmedAfter(o, k - 1)

\* Reset on a new timer, the fire, and Reset again: true, then false.
TimerResetReportsWitness ==
  \E o \in Obj :
    /\ objs[o].kind = "timer"
    /\ log[o] = <<[e |-> "Reset", r |-> TRUE], [e |-> "fire", r |-> TRUE],
                  [e |-> "Reset", r |-> FALSE]>>

\* C11. Reset of a callback timer returns true exactly when the callback timer
\* was armed just before the call: not fired and not stopped since it was made
\* or last Reset.
AfterFuncResetReports ==
  \A o \in Obj :
    objs[o].kind = "afterFunc" =>
      \A k \in Entries(o, "Reset") : log[o][k].r = ArmedAfter(o, k - 1)

\* C12. Reset re-arms: when a ticker, timer or callback timer that was stopped,
\* by Stop or by having fired, was Reset and not stopped since, and a Trigger on
\* its id has run since the Reset, one of its fires since the Reset delivered.
ResetRearms ==
  LockFree =>
    \A o \in Obj :
      (objs[o].kind \in {"tick", "timer", "afterFunc"} /\ objs[o].st = "live") =>
        \A k \in Entries(o, "Reset") :
          (/\ ~ArmedAfter(o, k - 1)
           /\ \A j \in (k + 1)..Len(log[o]) : log[o][j].e = "fire"
           /\ Occurrences(hist[objs[o].id], "T") > reg[o].hr)
            => \E j \in (k + 1)..Len(log[o]) : log[o][j].r

\* C13. Closing a deadline handle is idempotent and the first reason wins: in
\* every step, by a fire, the cancel function or the observer, a handle that is
\* closed stays closed with the reason it has, and after the step Err() is nil
\* exactly when the handle is open.
ClosesOnce ==
  [][\A o \in Obj :
       objs'[o].kind = "context" =>
         /\ (objs'[o].err = "nil") <=> ~objs'[o].closed
         /\ (objs[o].kind = "context" /\ objs[o].closed)
              => objs'[o].closed /\ objs'[o].err = objs[o].err]_vars

\* A handle that was cancelled and then fired keeps Canceled.
ClosesOnceWitness ==
  \E o \in Obj :
    /\ objs[o].kind = "context"
    /\ log[o] = <<[e |-> "cancel", r |-> TRUE], [e |-> "fire", r |-> FALSE]>>
    /\ objs[o].closed /\ objs[o].err = "Canceled"

\* C14. A deadline handle is closed once a fire of it or a call of its cancel
\* function has returned; the fire that found it open closed it as
\* DeadlineExceeded and the cancel that found it open closed it as Canceled; and
\* when a Trigger on its id has returned since it was registered, it is closed.
ClosedOnReturn ==
  \A o \in Obj :
    objs[o].kind = "context" =>
      /\ \A k \in 1..Len(log[o]) :
           /\ log[o][k].e \in {"fire", "cancel"} => objs[o].closed
           /\ (log[o][k].e = "fire" /\ log[o][k].r) => objs[o].err = "DeadlineExceeded"
           /\ (log[o][k].e = "cancel" /\ log[o][k].r) => objs[o].err = "Canceled"
      /\ (/\ LockFree
          /\ objs[o].st = "live"
          /\ LastU(objs[o].id) < reg[o].h0
          /\ Occurrences(SubSeq(hist[objs[o].id], reg[o].h0 + 1,
                                Len(hist[objs[o].id])), "T") > 0)
           => objs[o].closed

\* One handle closed by its Trigger and one by its cancel function.
ClosedOnReturnWitness ==
  \E o, p \in Obj :
    /\ objs[o].kind = "context" /\ objs[p].kind = "context"
    /\ log[o] = <<[e |-> "fire", r |-> TRUE]>> /\ objs[o].err = "DeadlineExceeded"
    /\ reg[o].c0 = 0
    /\ log[p] = <<[e |-> "cancel", r |-> TRUE]>> /\ objs[p].err = "Canceled"

\* C15. Deadline propagation: a child that was open when its parent was
\* cancelled, with no Trigger call under way, never reports DeadlineExceeded,
\* and reports Canceled once its observer has finished.
ParentReasonKept ==
  \A o \in Obj :
    objs[o].kind = "context" =>
      \A k \in 1..Len(log[o]) :
        (/\ log[o][k].e = "parent" /\ log[o][k].r
         /\ \A j \in 1..(k - 1) : ~log[o][j].r)
          => /\ objs[o].err # "DeadlineExceeded"
             /\ objs[o].obs = "done" => objs[o].err = "Canceled"

\* C16. Parent-to-child liveness: an open child whose parent is closed is
\* eventually closed with the parent's reason, and an observer whose parent or
\* own handle is closed eventually terminates.
ParentReaches ==
  \A o \in Obj :
    /\ (objs[o].obs = "run" /\ ParentDone(o) /\ ~objs[o].closed)
         ~> (objs[o].closed /\ objs[o].err = ParentErr(o))
    /\ (objs[o].obs = "run" /\ (ParentDone(o) \/ objs[o].closed))
         ~> (objs[o].obs = "done")

\* C17. Queued-now consumption: after QueueNows(v1..vn) on an empty queue, as
\* long as only Now is called, the i-th Now returns vi for i <= n and vn after.
QueuedNows ==
  \A q \in 1..Len(clk) :
    (clk[q].op = "QueueNows" /\ clk[q].nows0 = <<>>) =>
      \A j \in (q + 1)..Len(clk) :
        (\A i \in (q + 1)..j : clk[i].op = "Now")
          => clk[j].v = clk[q].vs[IF j - q <= Len(clk[q].vs) THEN j - q
                                  ELSE Len(clk[q].vs)]

\* Two times queued and three calls of Now: the second time sticks.
QueuedNowsWitness ==
  /\ Len(clk) = 4
  /\ clk[1].op = "QueueNows" /\ clk[1].vs = <<20, 30>>
  /\ \A j \in 2..4 : clk[j].op = "Now"
  /\ clk[2].v = 20 /\ clk[3].v = 30 /\ clk[4].v = 30
  /\ now = 30 /\ nows = <<>>

\* C18. Advance(d) adds d to the resident now and leaves the queue as it is: a
\* Now that is the next clock call finds the same queue and returns its head,
\* or, when the queue is empty, the resident now Advance found plus d.
AdvanceFrame ==
  \A k \in 1..Len(clk) :
    clk[k].op = "Advance" =>
      /\ k = Len(clk) => now = clk[k].now0 + clk[k].v /\ nows = clk[k].nows0
      /\ (k < Len(clk) /\ clk[k + 1].op = "Now")
           => /\ clk[k + 1].nows0 = clk[k].nows0
              /\ clk[k + 1].v = IF clk[k].nows0 = <<>> THEN clk[k].now0 + clk[k].v
                                 ELSE Head(clk[k].nows0)

\* Advance on a queue of two times, then Now: the head of the queue.
AdvanceFrameWitness ==
  /\ Len(clk) = 3
  /\ clk[1].op = "QueueNows" /\ clk[1].vs = <<20, 30>>
  /\ clk[2].op = "Advance" /\ clk[2].nows0 = <<20, 30>>
  /\ clk[3].op = "Now" /\ clk[3].v = 20
  /\ nows = <<30>>

\* C19. Clock operations fire nothing: a step of Now, Advance or QueueNows
\* leaves every id's credit and waiter list, every trigger object and every
\* delivery as they are, and a fire happens only in the pass of a Trigger call
\* or of a registration that found credit, wherever the clock stands.
ClockFiresNothing ==
  [][/\ clk' # clk => UNCHANGED <<triggers, objs, pend, sendq, recv, log>>
     /\ (\E o \in Obj : Len(log'[o]) > Len(log[o]) /\ log'[o][Len(log'[o])].e = "fire")
          => mu.pc = "fire" /\ mu.op \in {"Trigger", "register"}]_vars

\* The clock was advanced past the time of a registered After timer (the now
\* of its making plus its duration), which has not fired.
ClockFiresNothingWitness ==
  \E o \in Obj :
    /\ objs[o].kind = "after" /\ objs[o].st = "live"
    /\ now > reg[o].t0 + objs[o].d
    /\ \E k \in 1..Len(clk) : clk[k].op = "Advance"
    /\ Fires(o) = 0 /\ pend[o] = 0

\* C20. Unregister and UnregisterAll drop the entry: right after, the id has no
\* entry, hence no credit and no waiter; a registration that is the first
\* operation after the drop has not fired and waits alone without credit; when
\* a Trigger follows it, that Trigger has fired it once, with a delivery; and
\* no step fires a trigger that was registered before its id was last dropped.
UnregisterDrops ==
  /\ [](LockFree =>
         \A i \in Ids :
           LET seg == Seg(i) IN
           LastU(i) > 0 =>
             /\ seg = <<>> => triggers[i] = NoEntry
             /\ seg = <<"R">>
                  => /\ Fires(ObjAt(i, 1)) = 0
                     /\ triggers[i].count = 0
                     /\ triggers[i].triggers = <<ObjAt(i, 1)>>
             /\ seg = <<"R", "T">>
                  => Fires(ObjAt(i, 1)) = 1 /\ Deliveries(ObjAt(i, 1)) = 1)
  /\ [][\A o \in Obj :
          (Len(log'[o]) > Len(log[o]) /\ log'[o][Len(log'[o])].e = "fire")
            => reg[o].h0 > LastU(objs[o].id)]_vars

\* A timer, its id unregistered, a second timer on the id, and one Trigger: the
\* second timer fired and the first never did.
UnregisterDropsWitness ==
  /\ LockFree
  /\ hist[1] = <<"R", "U", "R", "T">>
  /\ objs[1].kind = "timer" /\ objs[2].kind = "timer"
  /\ Fires(1) = 0 /\ Fires(2) = 1 /\ pend[2] = 1
  /\ triggers[1].count = 0 /\ triggers[1].triggers = <<>>

\* C21. Firing order: of two fires of one call under the lock, the earlier one
\* belongs to an argument that is not later in the argument list, and when both
\* belong to the same argument the trigger fired first was registered first
\* (a repeating trigger may be fired again after itself).
FiringOrder ==
  \A j, k \in 1..Len(mu.fired) :
    j < k =>
      LET a == mu.fired[j]
          b == mu.fired[k]
      IN /\ a.left >= b.left
         /\ (a.left = b.left /\ a.o # b.o)
              => /\ objs[a.o].id = objs[b.o].id
                 /\ reg[a.o].h0 < reg[b.o].h0

\* One Trigger call with two arguments has fired two waiters for its first
\* argument, the one registered first before the other, and then a waiter for
\* its second argument.
FiringOrderWitness ==
  /\ mu.op = "Trigger"
  /\ \E j, k, l \in 1..Len(mu.fired) :
       /\ j < k /\ k < l
       /\ mu.fired[j].left = 1 /\ mu.fired[k].left = 1 /\ mu.fired[l].left = 0
       /\ mu.fired[j].o # mu.fired[k].o
       /\ reg[mu.fired[j].o].h0 < reg[mu.fired[k].o].h0

\* C23. The value received from an After channel is the resident now at the
\* fire plus the duration.
AfterValue ==
  \A o \in Obj :
    (objs[o].kind = "after" /\ recv[o] # <<>>) => recv[o][1] = reg[o].vf

\* C24. A timer delivers at most one value, and the value received from it is
\* the now of its making plus the duration it had when it was fired.
TimerValue ==
  \A o \in Obj :
    objs[o].kind = "timer" =>
      /\ Len(recv[o]) + Len(sendq[o]) + pend[o] <= 1
      /\ recv[o] # <<>> => recv[o][1] = reg[o].vf

\* C25. A callback timer starts its callback at a fire exactly when it is armed
\* then, as the history of its handle says; every start is a task of its own,
\* spawned by the fire and run later; and over all its fires, Stops and Resets
\* it is started at most once.
CallbackOnce ==
  \A o \in Obj :
    objs[o].kind = "afterFunc" =>
      /\ \A k \in Entries(o, "fire") : log[o][k].r = ArmedAfter(o, k - 1)
      /\ pend[o] + Len(recv[o]) = Deliveries(o)
      /\ Deliveries(o) <= 1

\* Two callback timers on one id and two Triggers: the one that was armed at
\* the first Trigger ran its callback once, also after a Reset and the second
\* Trigger; the one that was stopped then never started.
CallbackOnceWitness ==
  \E o, p \in Obj :
    /\ objs[o].kind = "afterFunc" /\ objs[p].kind = "afterFunc"
    /\ log[o] = <<[e |-> "fire", r |-> TRUE], [e |-> "Reset", r |-> TRUE]>>
    /\ recv[o] = <<0>> /\ pend[o] = 0
    /\ log[p] = <<[e |-> "Stop", r |-> TRUE], [e |-> "fire", r |-> FALSE]>>
    /\ recv[p] = <<>> /\ pend[p] = 0
    /\ LockFree /\ Occurrences(hist[1], "T") = 2

\* C26. The handle WithTimeout returned reports as its deadline the time its
\* call of Now() returned plus the timeout, and no step changes what it reports.
TimeoutDeadline ==
  /\ [](\A o \in Obj :
          (objs[o].kind = "context" /\ objs[o].st = "live")
            => Deadline(o) = <<reg[o].t0 + objs[o].d, TRUE>>)
  /\ [][\A o \in Obj :
          (objs[o].kind = "context" /\ objs[o].st = "live")
            => /\ objs'[o].kind = "context" /\ objs'[o].st = "live"
               /\ <<objs'[o].t, TRUE>> = Deadline(o)]_vars

\* A handle was made while a time was queued, which its call of Now() took;
\* since then the clock was advanced, a time was queued, and a Trigger closed
\* the handle: its deadline is still the queued time plus the timeout.
TimeoutDeadlineWitness ==
  \E o \in Obj :
    /\ objs[o].kind = "context" /\ objs[o].st = "live"
    /\ objs[o].closed /\ objs[o].err = "DeadlineExceeded"
    /\ reg[o].t0 \in Times /\ now # reg[o].t0 /\ nows # <<>>
    /\ Deadline(o) = <<reg[o].t0 + objs[o].d, TRUE>>
    /\ \E k \in 1..Len(clk) : clk[k].op = "Advance"

\* A step is a call of WithDeadline or WithTimeout with a nil parent.
NilParentCall ==
  /\ Len(clk') = Len(clk) + 1
  /\ clk'[Len(clk')].op \in {"WithDeadline", "WithTimeout"}

\* C27. A call of WithDeadline or WithTimeout with a nil parent leaves the
\* registry, the triggers and their tasks, the resident now and the queue of
\* times as they were.
NilParentFrame ==
  [][NilParentCall => UNCHANGED <<now, nows, triggers, objs, pend, sendq>>]_vars

\* The last fire of o kept it registered: o is a ticker that was not stopped.
KeptRepeating(o) ==
  /\ objs[o].kind = "tick"
  /\ Fires(o) >= 1
  /\ ~objs[o].stopped

\* C28. Credit invariant: whenever the lock is free, an id that has credit has
\* no waiter other than repeating triggers that were fired and kept.
CreditInvariant ==
  LockFree =>
    \A i \in Ids :
      triggers[i].count > 0
        => \A k \in 1..Len(triggers[i].triggers) : KeptRepeating(triggers[i].triggers[k])

\* A waiter and two Triggers: the first fired the waiter, the second is kept
\* as credit on the id, whose list is empty.
CreditInvariantWitness ==
  /\ LockFree
  /\ hist[1] = <<"R", "T", "T">>
  /\ triggers[1].count = 1 /\ triggers[1].triggers = <<>>
  /\ \E o \in Obj : OneShot(o) /\ Fires(o) = 1

\* A step of the thread that holds the lock.
HolderStep == TriggerId \/ TriggerReturn \/ Fire \/ EndPass

\* What the holder of the lock has left to do: the ids not yet looked at, then
\* the credit of the id in hand, then the triggers left in the pass.
MeasureBase == MaxObj + MaxTrig + 2
Measure ==
  IF LockFree THEN 0
  ELSE 1 + 2 * MeasureBase * MeasureBase * Len(mu.ids)
         + (IF mu.pc = "fire"
            THEN MeasureBase * MeasureBase
                   + MeasureBase * triggers[mu.id].count
                   + (Len(triggers[mu.id].triggers) + 1 - mu.idx)
            ELSE 0)

Names(j) ==
  \/ LockFree /\ hist'[j] # hist[j]
  \/ ~LockFree /\ \E k \in 1..Len(mu.args) : mu.args[k] = j

\* The step fires a trigger registered under id j.
FiresOn(j) ==
  \E o \in Obj :
    /\ objs[o].id = j
    /\ Len(log'[o]) = Len(log[o]) + 1
    /\ log'[o][Len(log'[o])].e = "fire"

\* C30. Id isolation: a step that changes the credit or the waiter list of an
\* id, that counts an operation on it, or that fires a trigger registered under
\* it, belongs to a Trigger, a registration or an Unregister that names the id.
IdIsolation ==
  [][\A j \in Ids :
       (triggers'[j] # triggers[j] \/ hist'[j] # hist[j] \/ FiresOn(j)) => Names(j)]_vars

\* Id 2 holds a waiter that was never fired and a credit of 0, as its
\* registration left them, while on id 1 a waiter was registered and fired by
\* a Trigger of id 1 and the id was unregistered.
IdIsolationWitness ==
  /\ LockFree
  /\ hist[1] = <<"R", "T", "U">>
  /\ hist[2] = <<"R">>
  /\ triggers[1] = NoEntry
  /\ triggers[2].count = 0 /\ Len(triggers[2].triggers) = 1
  /\ Fires(triggers[2].triggers[1]) = 0
  /\ \E o \in Obj : objs[o].id = 1 /\ Fires(o) = 1

\* The id of o was triggered after o was registered on it, and was not dropped
\* between the two.
TriggeredSince(o) ==
  LET i == objs[o].id IN
  /\ LastU(i) < reg[o].h0
  /\ \E k \in 1..Len(hist[i]) : k > reg[o].h0 /\ hist[i][k] = "T"

\* The Sleep call that made o has returned: it has received from its channel.
SleepReturned(o) == objs[o].kind = "sleep" /\ recv[o] # <<>>

\* The id of o was triggered after o, or had credit when o was registered.
SleepDue(o) ==
  /\ objs[o].kind = "sleep" /\ Registered(o)
  /\ reg[o].c0 > 0 \/ TriggeredSince(o)

\* C22. A Sleep that has returned was fired, exactly once, and its id had
\* credit at its registration or was triggered after it and before the id was
\* dropped; and a Sleep whose id had credit, or was so triggered, eventually
\* returns when the lock holder, the spawned tasks and the receive are
\* scheduled fairly.
SleepReturns ==
  /\ [](\A o \in Obj :
          SleepReturned(o)
            => /\ Fires(o) = 1
               /\ reg[o].h0 > 0
               /\ reg[o].c0 > 0
                    \/ \E k \in 1..Len(hist[objs[o].id]) :
                         /\ k > reg[o].h0 /\ hist[objs[o].id][k] = "T"
                         /\ \A j \in 1..k : j > reg[o].h0 => hist[objs[o].id][j] # "U")
  /\ \A o \in Obj : SleepDue(o) ~> SleepReturned(o)

\* A Sleep on id 1 has returned after a Trigger of id 1, while a later Sleep on
\* id 1 still waits, unfired, in a run in which id 2 was triggered and the clock
\* advanced.
SleepReturnsWitness ==
  \E o, p \in Obj :
    /\ SleepReturned(o) /\ reg[o].c0 = 0 /\ TriggeredSince(o)
    /\ objs[p].kind = "sleep" /\ objs[p].st = "live" /\ reg[p].h0 > reg[o].h0
    /\ Fires(p) = 0 /\ recv[p] = <<>>
    /\ hist[2] = <<"T">>
    /\ \E k \in 1..Len(clk) : clk[k].op = "Advance"
    /\ triggers[1].triggers = <<p>>

\* The k-th entry of the log of o is a fire that returned discard: any fire of a
\* one-shot trigger, and the fire of a ticker that was stopped.
DiscardedAt(o, k) ==
  /\ log[o][k].e = "fire"
  /\ objs[o].kind = "tick" => ~log[o][k].r

\* C31. No double fire: a trigger whose fire returned discard has no later fire,
\* and is in no waiter list once the lock is free; an After or Sleep is fired
\* at most once and has at most one delivery, spawned, sent or received.
NoDoubleFire ==
  \A o \in Obj :
    /\ \A k \in 1..Len(log[o]) :
         DiscardedAt(o, k)
           => /\ \A j \in 1..Len(log[o]) : j > k => log[o][j].e # "fire"
              /\ LockFree => \A i \in Ids : \A n \in 1..Len(triggers[i].triggers) :
                                triggers[i].triggers[n] # o
    /\ objs[o].kind \in {"after", "sleep"}
         => /\ Fires(o) <= 1
            /\ pend[o] + Len(sendq[o]) + Len(recv[o]) <= 1

\* An After was fired by a Trigger and its value received; a second Trigger
\* and a Sleep registered on the credit it left have not fired it again.
NoDoubleFireWitness ==
  /\ LockFree
  /\ hist[1] = <<"R", "T", "T", "R">>
  /\ \E o, p \in Obj :
       /\ objs[o].kind = "after" /\ reg[o].h0 = 1 /\ Fires(o) = 1 /\ Len(recv[o]) = 1
       /\ objs[p].kind = "sleep" /\ reg[p].h0 = 4 /\ Fires(p) = 1
  /\ triggers[1].triggers = <<>>

\* The waiter o was inert when it was fired: its one fire delivered nothing.
FiredInert(o) == Fires(o) = 1 /\ Deliveries(o) = 0

\* C32. Inert waiters consume credit: when the waiters registered on an id were
\* all inert at the fires of the one Trigger that followed, then that Trigger
\* has removed them and left the credit 0; a waiter registered afterwards waits
\* alone, unfired, and is fired by the next Trigger.
InertConsume ==
  LockFree =>
    \A i \in Ids :
      LET seg == Seg(i) IN
      \A n \in 1..MaxObj :
        (/\ Len(seg) >= n + 1
         /\ SubSeq(seg, 1, n + 1) = Rep("R", n) \o <<"T">>
         /\ \A k \in 1..n : FiredInert(ObjAt(i, k)))
          => /\ \A k \in 1..n : \A m \in 1..Len(triggers[i].triggers) :
                  triggers[i].triggers[m] # ObjAt(i, k)
             /\ Len(seg) = n + 1
                  => triggers[i].count = 0 /\ triggers[i].triggers = <<>>
             /\ seg = Rep("R", n) \o <<"T", "R">>
                  => /\ triggers[i].count = 0
                     /\ triggers[i].triggers = <<ObjAt(i, n + 2)>>
                     /\ Fires(ObjAt(i, n + 2)) = 0
             /\ seg = Rep("R", n) \o <<"T", "R", "T">>
                  => Fires(ObjAt(i, n + 2)) = 1

\* A stopped ticker alone on its id was triggered: it is gone and no credit is
\* left; the deadline handle registered afterwards is open and was not fired.
InertConsumeWitness ==
  /\ LockFree
  /\ hist[1] = <<"R", "T", "R">>
  /\ \E o, p \in Obj :
       /\ objs[o].kind = "tick" /\ objs[o].stopped /\ FiredInert(o)
       /\ objs[p].kind = "context" /\ objs[p].st = "live" /\ ~objs[p].closed
       /\ Fires(p) = 0
       /\ triggers[1].triggers = <<p>>
  /\ triggers[1].count = 0

\* The step reads the resident now: NewTicker or NewTimer builds its trigger, or
\* the task an After trigger spawned computes the value it sends.
ReadsNow ==
  \E o \in Obj :
    \/ objs[o].st = "unused" /\ objs'[o].st = "built" /\ objs'[o].kind \in {"tick", "timer"}
    \/ objs[o].kind = "after" /\ pend'[o] < pend[o]

\* C33. No unsynchronised access to the clock: no step reads the resident now
\* while a call of Advance is inside its critical section, about to write it.
ClockLocked ==
  [][ReadsNow => mu.pc # "write"]_vars

\* The step is a call of Now() or of WithTimeout.
TakesNow ==
  /\ Len(clk') = Len(clk) + 1
  /\ clk'[Len(clk')].op \in {"Now", "WithTimeout"}

\* C34. Override queue frame: a step that shortens the queue of times is a call
\* of Now() or WithTimeout, and such a call, finding the queue not empty, takes
\* exactly its head, which becomes the resident now; a step of After, Sleep,
\* AfterFunc, WithDeadline, Trigger or Unregister, and the building of a ticker
\* or a timer, leaves the queue and the resident now alone, and a ticker or a
\* timer starts from the resident now, as does the value an After delivers.
OverrideFrame ==
  [][/\ Len(nows') < Len(nows) => TakesNow
     /\ TakesNow => IF nows = <<>>
                    THEN nows' = <<>> /\ now' = now
                    ELSE nows' = Tail(nows) /\ now' = Head(nows)
     /\ (hist' # hist \/ mu' # mu) => nows' = nows /\ now' = now
     /\ \A o \in Obj :
          /\ (objs[o].st = "unused" /\ objs'[o].st # "unused" /\ ~TakesNow)
               => /\ nows' = nows /\ now' = now
                  /\ objs'[o].kind \in {"tick", "timer"} => objs'[o].t = now
          /\ (objs'[o].kind = "after" /\ reg'[o].vf # reg[o].vf)
               => reg'[o].vf = now + objs[o].d]_vars

\* With two times queued a ticker was made and fired, a sleeper was removed by
\* Unregister, and a call of Now() then took the first time and left the second:
\* the ticker started from the resident now the clock had before.
OverrideFrameWitness ==
  /\ nows = <<30>>
  /\ now = 20
  /\ \E k \in 1..Len(clk) : clk[k].op = "Now" /\ clk[k].nows0 = <<20, 30>> /\ clk[k].now0 = 10
  /\ \E o \in Obj : objs[o].kind = "tick" /\ reg[o].t0 = 10 /\ Fires(o) > 0
  /\ \E k \in 2..Len(hist[2]) : hist[2][k - 1] = "R" /\ hist[2][k] = "U"

\* The place of the first Stop in the history of o, or one past its end.
FirstStop(o) ==
  IF \E k \in 1..Len(log[o]) : log[o][k].e = "Stop"
  THEN CHOOSE k \in 1..Len(log[o]) :
         /\ log[o][k].e = "Stop"
         /\ \A j \in 1..(k - 1) : log[o][j].e # "Stop"
  ELSE Len(log[o]) + 1

\* The fires of o that came before its first Stop.
FiresBeforeStop(o) ==
  Cardinality({k \in 1..Len(log[o]) : log[o][k].e = "fire" /\ k < FirstStop(o)})

\* The ticks of o that were received or can still be: tasks not run yet, tasks
\* blocked in their send, ticks taken from the channel.
Receivable(o) == pend[o] + Len(sendq[o]) + Len(recv[o])

\* C35. Stop does not revoke deliveries in flight: the ticks of a ticker,
\* received or still to be received, are as many as its fires that came before
\* its first Stop; every such fire delivered and no later one did; and a tick
\* in flight can go on, its task can run and, the ticker once handed to its
\* caller, its send can be received, whether the ticker is stopped or not.
StopKeepsTicks ==
  \A o \in Obj :
    objs[o].kind = "tick" =>
      /\ Receivable(o) = FiresBeforeStop(o)
      /\ \A k \in 1..Len(log[o]) :
           log[o][k].e = "fire" => (log[o][k].r <=> k < FirstStop(o))
      /\ pend[o] > 0 => ENABLED Run(o)
      /\ (sendq[o] # <<>> /\ objs[o].st = "live") => ENABLED Receive(o)

\* A ticker fired, was stopped with that tick not yet received, and fired again
\* to no effect: the first tick is still on its way.
StopKeepsTicksWitness ==
  \E o \in Obj :
    /\ objs[o].kind = "tick"
    /\ Len(log[o]) = 3
    /\ log[o][1].e = "fire" /\ log[o][2].e = "Stop" /\ log[o][3].e = "fire"
    /\ sendq[o] # <<>>
    /\ recv[o] = <<>>

\* ------------------------------------------------------------ specifications
\* The operations are the same in every specification; a specification chooses
\* which of them the callers use and on which ids.

\* The dispatch protocol on one id: every kind of waiter is registered and
\* triggered, and the id is unregistered and used again.
Next ==
  \/ After(1, 1)
  \/ Sleep(1, 1)
  \/ AfterFunc(1, 1)
  \/ NewTicker(1, 1)
  \/ NewTimer(1, 1)
  \/ \E o \in Obj : RegisterBuilt(o)
  \/ WithDeadline(Background, 11, 1)
  \/ \E ids \in {<<1>>, <<1, 1>>} : Trigger(ids)
  \/ TriggerId
  \/ TriggerReturn
  \/ Fire
  \/ EndPass
  \/ Unregister(<<1>>)
  \/ UnregisterAll

Spec == Init /\ [][Next]_vars

\* Timers and callback timers with their handles: Stop, and Reset of a timer,
\* race with the fires of Trigger.  No delivery task is scheduled.
NextHandles ==
  \/ NewTimer(1, 1)
  \/ AfterFunc(1, 1)
  \/ \E o \in Obj : RegisterBuilt(o)
  \/ \E ids \in {<<1>>, <<1, 1>>} : Trigger(ids)
  \/ TriggerId
  \/ TriggerReturn
  \/ Fire
  \/ EndPass
  \/ \E o \in Obj : TimerStop(o)
  \/ \E o \in Obj : TimerReset(o, 2)
  \/ \E o \in Obj : AfterFuncStop(o)

SpecHandles == Init /\ [][NextHandles]_vars

\* Deadline handles under a cancellable parent: their id is triggered, their
\* cancel functions and the parent's are called, and their observers run.
NextContext ==
  \/ WithDeadline(External, 11, 1)
  \/ Trigger(<<1>>)
  \/ TriggerId
  \/ TriggerReturn
  \/ Fire
  \/ EndPass
  \/ \E o \in Obj : Cancel(o)
  \/ ParentCancel
  \/ \E o \in Obj : Observe(o)

SpecContext == Init /\ [][NextContext]_vars

\* Deadline handles under a background parent, a cancellable parent and another
\* handle, the child on an id of its own.
NextNested ==
  \/ WithDeadline(Background, 11, 1)
  \/ WithDeadline(External, 11, 1)
  \/ \E p \in Obj : WithDeadline(Child(p), 12, 2)
  \/ \E i \in Ids : Trigger(<<i>>)
  \/ TriggerId
  \/ TriggerReturn
  \/ Fire
  \/ EndPass
  \/ \E o \in Obj : Cancel(o)
  \/ ParentCancel
  \/ \E o \in Obj : Observe(o)

SpecNested == Init /\ [][NextNested]_vars

\* The same, where no task and no holder of the lock stops for ever.
SpecNestedFair ==
  /\ SpecNested
  /\ \A o \in Obj : WF_vars(Observe(o))
  /\ WF_vars(TriggerId) /\ WF_vars(TriggerReturn) /\ WF_vars(Fire) /\ WF_vars(EndPass)

\* The clock alone: times are queued, read and advanced in every order.
NextNows ==
  \/ Now
  \/ \E d \in Durations : Advance(d)
  \/ \E times \in QueueArgs : QueueNows(times)

SpecNows == Init /\ [][NextNows]_vars

\* The clock next to After timers: a time is queued, the clock is read and
\* advanced past a timer's time while timers are made and their id triggered.
NextClock ==
  \/ After(1, 1)
  \/ Trigger(<<1>>)
  \/ TriggerId
  \/ TriggerReturn
  \/ Fire
  \/ EndPass
  \/ Now
  \/ Advance(2)
  \/ QueueNows(<<20>>)

SpecClock == Init /\ [][NextClock]_vars

\* Timers, callback timers and tickers that are stopped, triggered and Reset.
NextReset ==
  \/ NewTimer(1, 1)
  \/ AfterFunc(1, 1)
  \/ NewTicker(1, 1)
  \/ \E o \in Obj : RegisterBuilt(o)
  \/ Trigger(<<1>>)
  \/ TriggerId
  \/ TriggerReturn
  \/ Fire
  \/ EndPass
  \/ \E o \in Obj : TimerStop(o)
  \/ \E o \in Obj : TimerReset(o, 2)
  \/ \E o \in Obj : AfterFuncStop(o)
  \/ \E o \in Obj : AfterFuncReset(o, 2)
  \/ \E o \in Obj : TickStop(o)
  \/ \E o \in Obj : TickReset(o, 2)

SpecReset == Init /\ [][NextReset]_vars

\* Timers, callback timers and tickers that are stopped, any number of times,
\* while their id is triggered.
NextStop ==
  \/ NewTimer(1, 1)
  \/ AfterFunc(1, 1)
  \/ NewTicker(1, 1)
  \/ \E o \in Obj : RegisterBuilt(o)
  \/ \E ids \in {<<1>>, <<1, 1>>} : Trigger(ids)
  \/ TriggerId
  \/ TriggerReturn
  \/ Fire
  \/ EndPass
  \/ \E o \in Obj : TimerStop(o)
  \/ \E o \in Obj : AfterFuncStop(o)
  \/ \E o \in Obj : TickStop(o)

SpecStop == Init /\ [][NextStop]_vars

\* Tickers next to one-shot waiters on one id, which is triggered before and
\* after they are registered, and unregistered.
NextTicker ==
  \/ NewTicker(1, 1)
  \/ After(1, 1)
  \/ \E o \in Obj : RegisterBuilt(o)
  \/ \E ids \in {<<1>>, <<1, 1>>} : Trigger(ids)
  \/ TriggerId
  \/ TriggerReturn
  \/ Fire
  \/ EndPass
  \/ \E o \in Obj : TickStop(o)
  \/ Unregister(<<1>>)

SpecTicker == Init /\ [][NextTicker]_vars

\* A ticker and its reader: the ticker's id is triggered while the clock is
\* advanced, the delivery tasks are scheduled and the reader receives.
NextDelivery ==
  \/ \E d \in Durations : NewTicker(d, 1)
  \/ \E o \in Obj : RegisterBuilt(o)
  \/ \E ids \in {<<1>>, <<1, 1>>} : Trigger(ids)
  \/ TriggerId
  \/ TriggerReturn
  \/ Fire
  \/ EndPass
  \/ \E o \in Obj : TickStop(o)
  \/ \E o \in Obj : Run(o)
  \/ \E o \in Obj : Receive(o)
  \/ \E d \in Durations : Advance(d)

SpecDelivery == Init /\ [][NextDelivery]_vars

\* Two ids: After waiters and tickers on either id, and Trigger calls that name
\* one id, one id twice, or both ids in either order.
NextOrder ==
  \/ \E i \in Ids : After(1, i)
  \/ \E i \in Ids : NewTicker(1, i)
  \/ \E o \in Obj : RegisterBuilt(o)
  \/ \E ids \in TriggerArgs : Trigger(ids)
  \/ TriggerId
  \/ TriggerReturn
  \/ Fire
  \/ EndPass

SpecOrder == Init /\ [][NextOrder]_vars

\* Sleeps on id 1 next to Trigger of either id, Unregister and Advance; the
\* tasks the fires spawn are scheduled and the sleepers receive.
NextSleep ==
  \/ Sleep(1, 1)
  \/ \E i \in Ids : Trigger(<<i>>)
  \/ TriggerId
  \/ TriggerReturn
  \/ Fire
  \/ EndPass
  \/ Unregister(<<1>>)
  \/ Advance(1)
  \/ \E o \in Obj : Run(o)
  \/ \E o \in Obj : Receive(o)

SpecSleep == Init /\ [][NextSleep]_vars

\* Fair scheduling: the holder of the lock goes on, a spawned task runs, and a
\* sleeper whose channel has a sender receives.
SpecSleepFair ==
  /\ SpecSleep
  /\ WF_vars(TriggerId) /\ WF_vars(TriggerReturn) /\ WF_vars(Fire) /\ WF_vars(EndPass)
  /\ \A o \in Obj : WF_vars(Run(o)) /\ WF_vars(Receive(o))

\* An After timer and its reader: the id is triggered, the clock is advanced,
\* the delivery task is scheduled and the reader receives.
NextAfter ==
  \/ \E d \in Durations : After(d, 1)
  \/ Trigger(<<1>>)
  \/ TriggerId
  \/ TriggerReturn
  \/ Fire
  \/ EndPass
  \/ \E d \in Durations : Advance(d)
  \/ \E o \in Obj : Run(o)
  \/ \E o \in Obj : Receive(o)

SpecAfter == Init /\ [][NextAfter]_vars

\* A timer, its handle and its reader: the id is triggered, the timer is stopped
\* and reset, the clock is advanced, the delivery task is scheduled and the
\* reader receives.
NextTimer ==
  \/ NewTimer(1, 1)
  \/ \E o \in Obj : RegisterBuilt(o)
  \/ Trigger(<<1>>)
  \/ TriggerId
  \/ TriggerReturn
  \/ Fire
  \/ EndPass
  \/ \E o \in Obj : TimerStop(o)
  \/ \E o \in Obj : TimerReset(o, 2)
  \/ Advance(1)
  \/ \E o \in Obj : Run(o)
  \/ \E o \in Obj : Receive(o)

SpecTimer == Init /\ [][NextTimer]_vars

\* Callback timers and their handles: Stop and Reset race with the fires of
\* Trigger, and the callbacks the fires start are scheduled.
NextCallback ==
  \/ AfterFunc(1, 1)
  \/ \E ids \in {<<1>>, <<1, 1>>} : Trigger(ids)
  \/ TriggerId
  \/ TriggerReturn
  \/ Fire
  \/ EndPass
  \/ \E o \in Obj : AfterFuncStop(o)
  \/ \E o \in Obj : AfterFuncReset(o, 2)
  \/ \E o \in Obj : Run(o)

SpecCallback == Init /\ [][NextCallback]_vars

\* Deadline handles made by WithTimeout while times are queued and the clock is
\* advanced; the handles are closed by Trigger and by their cancel functions.
\* The parent is never done, so the observer tasks have nothing to pass on.
NextTimeout ==
  \/ WithTimeout(Background, 1, 1)
  \/ \E o \in Obj : RegisterBuilt(o)
  \/ Trigger(<<1>>)
  \/ TriggerId
  \/ TriggerReturn
  \/ Fire
  \/ EndPass
  \/ \E o \in Obj : Cancel(o)
  \/ Advance(2)
  \/ QueueNows(<<20>>)

SpecTimeout == Init /\ [][NextTimeout]_vars

\* Calls with a nil parent next to the clock operations and to WithTimeout
\* calls that succeed.
NextNil ==
  \/ WithDeadlineNil(11, 1)
  \/ WithTimeoutNil(1, 1)
  \/ WithTimeout(Background, 1, 1)
  \/ \E o \in Obj : RegisterBuilt(o)
  \/ Now
  \/ Advance(1)
  \/ QueueNows(<<20>>)

SpecNil == Init /\ [][NextNil]_vars

\* Every registering operation next to Trigger, while tickers are stopped and
\* deadline handles cancelled; no spawned task is scheduled and no reader ever
\* receives.
NextLock ==
  \/ After(1, 1)
  \/ AfterFunc(1, 1)
  \/ NewTicker(1, 1)
  \/ NewTimer(1, 1)
  \/ \E o \in Obj : RegisterBuilt(o)
  \/ WithDeadline(Background, 11, 1)
  \/ Trigger(<<1>>)
  \/ TriggerId
  \/ TriggerReturn
  \/ Fire
  \/ EndPass
  \/ \E o \in Obj : TickStop(o)
  \/ \E o \in Obj : Cancel(o)

SpecLock == Init /\ [][NextLock]_vars

\* Two ids, each with its waiters, its Triggers and its Unregisters.
NextIds ==
  \/ \E i \in Ids : After(1, i)
  \/ \E i \in Ids : NewTicker(1, i)
  \/ \E o \in Obj : RegisterBuilt(o)
  \/ \E i \in Ids : Trigger(<<i>>)
  \/ TriggerId
  \/ TriggerReturn
  \/ Fire
  \/ EndPass
  \/ \E i \in Ids : Unregister(<<i>>)

SpecIds == Init /\ [][NextIds]_vars

\* After and Sleep waiters on one id that is triggered and unregistered; the
\* deliveries are scheduled and received.
NextOnce ==
  \/ After(1, 1)
  \/ Sleep(1, 1)
  \/ \E ids \in {<<1>>, <<1, 1>>} : Trigger(ids)
  \/ TriggerId
  \/ TriggerReturn
  \/ Fire
  \/ EndPass
  \/ Unregister(<<1>>)
  \/ \E o \in Obj : Run(o)
  \/ \E o \in Obj : Receive(o)

SpecOnce == Init /\ [][NextOnce]_vars

\* Waiters that can be made inert, a ticker, a timer, a callback timer and a
\* deadline handle, are stopped or cancelled and their id is triggered.
NextInert ==
  \/ NewTicker(1, 1)
  \/ NewTimer(1, 1)
  \/ \E o \in Obj : RegisterBuilt(o)
  \/ AfterFunc(1, 1)
  \/ WithDeadline(Background, 11, 1)
  \/ Trigger(<<1>>)
  \/ TriggerId
  \/ TriggerReturn
  \/ Fire
  \/ EndPass
  \/ \E o \in Obj : TickStop(o)
  \/ \E o \in Obj : TimerStop(o)
  \/ \E o \in Obj : AfterFuncStop(o)
  \/ \E o \in Obj : Cancel(o)

SpecInert == Init /\ [][NextInert]_vars

\* The readers of the resident now, NewTicker, NewTimer and the task of an
\* After, next to Advance taken step by step.
NextRace ==
  \/ NewTicker(1, 1)
  \/ NewTimer(1, 1)
  \/ \E o \in Obj : RegisterBuilt(o)
  \/ After(1, 1)
  \/ Trigger(<<1>>)
  \/ TriggerId
  \/ TriggerReturn
  \/ Fire
  \/ EndPass
  \/ \E o \in Obj : Run(o)
  \/ \E d \in Durations : AdvanceLock(d)
  \/ AdvanceWrite

SpecRace == Init /\ [][NextRace]_vars

\* Two times are queued, once, before any other call; while the queue holds a
\* time, every operation that makes a trigger, Trigger, Unregister and Now() are
\* called; WithTimeout is called with and without a queued time.  The sleeper
\* and Unregister use the second id, everything else the first.
NextFrame ==
  \/ nows # <<>> /\ After(1, 1)
  \/ nows # <<>> /\ Sleep(1, 2)
  \/ nows # <<>> /\ NewTicker(1, 1)
  \/ nows # <<>> /\ NewTimer(1, 1)
  \/ \E o \in Obj : RegisterBuilt(o)
  \/ nows # <<>> /\ AfterFunc(1, 1)
  \/ nows # <<>> /\ WithDeadline(Background, 11, 1)
  \/ WithTimeout(Background, 1, 1)
  \/ nows # <<>> /\ Trigger(<<1>>)
  \/ TriggerId
  \/ TriggerReturn
  \/ Fire
  \/ EndPass
  \/ nows # <<>> /\ Unregister(<<2>>)
  \/ nows # <<>> /\ Now
  \/ nows = <<>> /\ clk = <<>> /\ QueueNows(<<20, 30>>)

SpecFrame == Init /\ [][NextFrame]_vars

\* One ticker, triggered, stopped, and its ticks sent and received.
NextFlight ==
  \/ (\A o \in Obj : objs[o].st = "unused") /\ NewTicker(1, 1)
  \/ \E o \in Obj : RegisterBuilt(o)
  \/ Trigger(<<1>>)
  \/ TriggerId
  \/ TriggerReturn
  \/ Fire
  \/ EndPass
  \/ \E o \in Obj : TickStop(o)
  \/ \E o \in Obj : Run(o)
  \/ \E o \in Obj : Receive(o)

SpecFlight == Init /\ [][NextFlight]_vars

====
